---- MODULE Spec2Model ----
(***************************************************************************)
(* Model of sysmon-subgraph-generator/src/main.rs: the timestamp           *)
(* normaliser (utc_to_epoch), the endpoint classifier (is_internal_ip),    *)
(* the four graph construction rules and the batch mapper                  *)
(* (SysmonSubgraphGenerator::handle_event).                                *)
(*                                                                         *)
(* Text (timestamps, host names) is a sequence of one-character strings,   *)
(* so that parsing and pattern matching are computed, not assumed.         *)
(***************************************************************************)
EXTENDS Integers, Sequences, FiniteSets, TLC

VARIABLES
    pc,          \* position of handle_event: "start", "map", "sink", "done"
    payload,     \* the raw event: a sequence of bytes
    events,      \* the record slices produced by the split (line 341)
    out,         \* per finished record, the Option the flat_map closure returned
    subgraphs,   \* the collected batch (line 389)
    sinkCalls,   \* the calls of output_handler so far: argument and result
    ret,         \* the value handle_event returned ("none" until it returns)
    call,        \* the last direct call of a pure function and its input
    result       \* what that call returned

vars == <<pc, payload, events, out, subgraphs, sinkCalls, ret, call, result>>

(***************************************************************************)
(* Bounds of the model.                                                    *)
(***************************************************************************)
MaxRecords == 3
MaxPid == 2

(***************************************************************************)
(* Characters.                                                             *)
(***************************************************************************)
DigitVal == [c \in {"0", "1", "2", "3", "4", "5", "6", "7", "8", "9"} |->
                CASE c = "0" -> 0 [] c = "1" -> 1 [] c = "2" -> 2 [] c = "3" -> 3
                  [] c = "4" -> 4 [] c = "5" -> 5 [] c = "6" -> 6 [] c = "7" -> 7
                  [] c = "8" -> 8 [] c = "9" -> 9]

IsDigit(c) == c \in DOMAIN DigitVal

\* Unicode White_Space, the characters str::trim_left strips: U+0009 to
\* U+000D and the space as themselves, those beyond ASCII (one character
\* each in the text) by their code points.
WhiteSpace ==
    {"\t", "\n", "", "\f", "\r", " ",
     "U+0085", "U+00A0", "U+1680", "U+2000", "U+2001", "U+2002", "U+2003",
     "U+2004", "U+2005", "U+2006", "U+2007", "U+2008", "U+2009", "U+200A",
     "U+2028", "U+2029", "U+202F", "U+205F", "U+3000"}

IsSpace(c) == c \in WhiteSpace

RECURSIVE Pow10(_)
Pow10(n) == IF n = 0 THEN 1 ELSE 10 * Pow10(n - 1)

\* Does the literal text lit occur in s at position p?
MatchAt(s, p, lit) ==
    /\ p >= 1
    /\ p + Len(lit) - 1 <= Len(s)
    /\ \A i \in 1..Len(lit) : s[p + i - 1] = lit[i]

\* The first position >= p of s that holds no whitespace (str::trim_left).
RECURSIVE TrimLeft(_, _)
TrimLeft(s, p) ==
    IF p <= Len(s) /\ IsSpace(s[p]) THEN TrimLeft(s, p + 1) ELSE p

\* The first position >= p of s, at most lim, that holds no digit.
RECURSIVE DigitsEnd(_, _, _)
DigitsEnd(s, p, lim) ==
    IF p <= Len(s) /\ p < lim /\ IsDigit(s[p]) THEN DigitsEnd(s, p + 1, lim) ELSE p

RECURSIVE DigitsValue(_, _, _)
DigitsValue(s, p, q) ==
    IF q <= p THEN 0 ELSE DigitsValue(s, p, q - 1) * 10 + DigitVal[s[q - 1]]

(***************************************************************************)
(* chrono's scan::number(s, min, max): between min and max decimal digits, *)
(* as many as there are.                                                   *)
(***************************************************************************)
ScanNumber(s, p, min, max) ==
    LET q == DigitsEnd(s, p, p + max)
    IN  IF q - p < min
        THEN [ok |-> FALSE, val |-> 0, next |-> p]
        ELSE [ok |-> TRUE, val |-> DigitsValue(s, p, q), next |-> q]

\* %Y: a sign lifts the four-digit limit.
ScanYear(s, p) ==
    IF MatchAt(s, p, <<"-">>)
    THEN [ok |-> ScanNumber(s, p + 1, 1, Len(s)).ok,
          val |-> 0 - ScanNumber(s, p + 1, 1, Len(s)).val,
          next |-> ScanNumber(s, p + 1, 1, Len(s)).next]
    ELSE IF MatchAt(s, p, <<"+">>)
    THEN ScanNumber(s, p + 1, 1, Len(s))
    ELSE ScanNumber(s, p, 1, 4)

\* %.3f: read only when the next character is a dot; the dot is followed
\* by exactly three digits (scan::nanosecond_fixed(s, 3)), a fourth one is
\* left in the text.  The value is in nanoseconds.
ScanNanosecond(s, p) ==
    IF ~MatchAt(s, p, <<".">>)
    THEN [ok |-> TRUE, val |-> 0, next |-> p]
    ELSE IF ~ScanNumber(s, p + 1, 3, 3).ok
    THEN [ok |-> FALSE, val |-> 0, next |-> p]
    ELSE [ok |-> TRUE,
          val |-> ScanNumber(s, p + 1, 3, 3).val * Pow10(6),
          next |-> ScanNumber(s, p + 1, 3, 3).next]

(***************************************************************************)
(* The calendar.                                                           *)
(***************************************************************************)
IsLeapYear(y) == (y % 4 = 0 /\ y % 100 # 0) \/ y % 400 = 0

DaysInMonth(y, m) ==
    CASE m \in {1, 3, 5, 7, 8, 10, 12} -> 31
      [] m \in {4, 6, 9, 11} -> 30
      [] OTHER -> IF IsLeapYear(y) THEN 29 ELSE 28

LeapsBefore(y) == ((y - 1) \div 4) - ((y - 1) \div 100) + ((y - 1) \div 400)

RECURSIVE DaysBeforeMonth(_, _)
DaysBeforeMonth(y, m) ==
    IF m <= 1 THEN 0 ELSE DaysBeforeMonth(y, m - 1) + DaysInMonth(y, m - 1)

\* Days from 1970-01-01 to y-m-d.
DaysFromEpoch(y, m, d) ==
    365 * (y - 1970) + (LeapsBefore(y) - LeapsBefore(1970))
      + DaysBeforeMonth(y, m) + (d - 1)

(***************************************************************************)
(* NaiveDateTime::parse_from_str(utc, "%Y-%m-%d %H:%M:%S%.3f") (line 83).  *)
(* The format is a list of items; the parser takes them in turn, each      *)
(* consuming text at the position the one before left.  The result is      *)
(* [ok, secs, nanos]: secs the whole seconds from the epoch, nanos the     *)
(* fraction (1e9 and more within a leap second).                           *)
(***************************************************************************)
Format ==
    << [item |-> "num", field |-> "year"],   [item |-> "lit", char |-> "-"],
       [item |-> "num", field |-> "month"],  [item |-> "lit", char |-> "-"],
       [item |-> "num", field |-> "day"],    [item |-> "space"],
       [item |-> "num", field |-> "hour"],   [item |-> "lit", char |-> ":"],
       [item |-> "num", field |-> "minute"], [item |-> "lit", char |-> ":"],
       [item |-> "num", field |-> "second"], [item |-> "nano"] >>

ParseStart ==
    [ok |-> TRUE, p |-> 1, year |-> 0, month |-> 0, day |-> 0,
     hour |-> 0, minute |-> 0, second |-> 0, nano |-> 0]

\* One item of the format, from parse state st.
ParseItem(s, it, st) ==
    IF ~st.ok THEN st
    ELSE IF it.item = "lit"
    THEN [st EXCEPT !.ok = MatchAt(s, st.p, <<it.char>>), !.p = @ + 1]
    ELSE IF it.item = "space"
    THEN [st EXCEPT !.p = TrimLeft(s, @)]
    ELSE IF it.item = "nano"
    THEN [st EXCEPT !.ok = ScanNanosecond(s, st.p).ok,
                    !.nano = ScanNanosecond(s, st.p).val,
                    !.p = ScanNanosecond(s, st.p).next]
    ELSE IF it.field = "year"
    THEN [st EXCEPT !.ok = ScanYear(s, TrimLeft(s, st.p)).ok,
                    !.year = ScanYear(s, TrimLeft(s, st.p)).val,
                    !.p = ScanYear(s, TrimLeft(s, st.p)).next]
    ELSE [st EXCEPT !.ok = ScanNumber(s, TrimLeft(s, st.p), 1, 2).ok,
                    ![it.field] = ScanNumber(s, TrimLeft(s, st.p), 1, 2).val,
                    !.p = ScanNumber(s, TrimLeft(s, st.p), 1, 2).next]

\* The items from the i-th on.  Each state is computed once and handed on.
RECURSIVE ParseItems(_, _, _)
ParseItems(s, i, st) ==
    IF i > Len(Format) THEN st
    ELSE CHOOSE end \in {ParseItems(s, i + 1, nx) : nx \in {ParseItem(s, Format[i], st)}} :
             TRUE

\* The years a NaiveDate holds.
MinYear == 0 - 262143

MaxYear == 262142

parse_from_str(s) ==
    CHOOSE dt \in
        { IF ~st.ok \/ st.p # Len(s) + 1 THEN [ok |-> FALSE, secs |-> 0, nanos |-> 0]
          ELSE IF st.year < MinYear \/ st.year > MaxYear
          THEN [ok |-> FALSE, secs |-> 0, nanos |-> 0]
          ELSE IF st.month < 1 \/ st.month > 12
          THEN [ok |-> FALSE, secs |-> 0, nanos |-> 0]
          ELSE IF st.day < 1 \/ st.day > DaysInMonth(st.year, st.month)
          THEN [ok |-> FALSE, secs |-> 0, nanos |-> 0]
          ELSE IF st.hour > 23 \/ st.minute > 59 \/ st.second > 60
          THEN [ok |-> FALSE, secs |-> 0, nanos |-> 0]
          ELSE [ok |-> TRUE,
                secs |-> DaysFromEpoch(st.year, st.month, st.day) * 86400
                           + st.hour * 3600 + st.minute * 60
                           + (IF st.second = 60 THEN 59 ELSE st.second),
                nanos |-> st.nano + (IF st.second = 60 THEN 1000000000 ELSE 0)]
          : st \in {ParseItems(s, 1, ParseStart)} } : TRUE

\* DateTime::timestamp_millis
timestamp_millis(dt) == dt.secs * 1000 + (dt.nanos \div 1000000)

(***************************************************************************)
(* utc_to_epoch (lines 82-94).                                             *)
(***************************************************************************)
utc_to_epoch(utc) ==
    CHOOSE r \in
        { IF ~dt.ok
          THEN [ok |-> FALSE, val |-> 0, err |-> "ParseError"]
          ELSE IF timestamp_millis(dt) < 0
          THEN [ok |-> FALSE, val |-> 0, err |-> "Timestamp is negative"]
          ELSE [ok |-> TRUE, val |-> timestamp_millis(dt), err |-> ""]
          : dt \in {parse_from_str(utc)} } : TRUE

(***************************************************************************)
(* is_internal_ip (lines 71-80).  The pattern of line 75 is, character for *)
(* character, /(^127\.)|(^192\.168\.)|(^10\.)|(^172\.1[6-9]\.)|            *)
(* (^172\.2[0-9]\.)|(^172\.3[0-1]\.)|(^::1$)|(^[fF][cCdD])/ : the two      *)
(* slashes are ordinary characters of the pattern, so its first            *)
(* alternative is a slash followed by ^127\. and its last one is           *)
(* ^[fF][cCdD] followed by a slash.  Regex::is_match searches every        *)
(* position of the text.                                                   *)
(***************************************************************************)
AtStart(s, p) == p = 1

AtEnd(s, p) == p = Len(s) + 1

ClassAt(s, p, class) == p >= 1 /\ p <= Len(s) /\ s[p] \in class

RegexMatchesAt(ip, p) ==
    \/ /\ MatchAt(ip, p, <<"/">>)
       /\ AtStart(ip, p + 1)
       /\ MatchAt(ip, p + 1, <<"1", "2", "7", ".">>)
    \/ AtStart(ip, p) /\ MatchAt(ip, p, <<"1", "9", "2", ".", "1", "6", "8", ".">>)
    \/ AtStart(ip, p) /\ MatchAt(ip, p, <<"1", "0", ".">>)
    \/ /\ AtStart(ip, p)
       /\ MatchAt(ip, p, <<"1", "7", "2", ".", "1">>)
       /\ ClassAt(ip, p + 5, {"6", "7", "8", "9"})
       /\ MatchAt(ip, p + 6, <<".">>)
    \/ /\ AtStart(ip, p)
       /\ MatchAt(ip, p, <<"1", "7", "2", ".", "2">>)
       /\ ClassAt(ip, p + 5, DOMAIN DigitVal)
       /\ MatchAt(ip, p + 6, <<".">>)
    \/ /\ AtStart(ip, p)
       /\ MatchAt(ip, p, <<"1", "7", "2", ".", "3">>)
       /\ ClassAt(ip, p + 5, {"0", "1"})
       /\ MatchAt(ip, p + 6, <<".">>)
    \/ AtStart(ip, p) /\ MatchAt(ip, p, <<":", ":", "1">>) /\ AtEnd(ip, p + 3)
    \/ /\ AtStart(ip, p)
       /\ ClassAt(ip, p, {"f", "F"})
       /\ ClassAt(ip, p + 1, {"c", "C", "d", "D"})
       /\ MatchAt(ip, p + 2, <<"/">>)

is_internal_ip(ip) == \E p \in 1..(Len(ip) + 1) : RegexMatchesAt(ip, p)

(***************************************************************************)
(* Graph descriptions (crate graph_descriptions).  A node's identity key   *)
(* is derived from its variant, its asset or host identifier and its       *)
(* discriminant (pid, path, port); a fragment holds its nodes keyed by     *)
(* identity and its edges as a set.  A field no setter was called for      *)
(* keeps its default; a timestamp's default is 0.                          *)
(***************************************************************************)
Get(f, name, default) == IF name \in DOMAIN f THEN f[name] ELSE default

HostId(f) ==
    IF "asset_id" \in DOMAIN f THEN <<"asset_id", f.asset_id>>
    ELSE IF "host_ip" \in DOMAIN f THEN <<"host_ip", f.host_ip>>
    ELSE <<"none", "">>

NodeKey(kind, f, disc) == <<kind, HostId(f), disc>>

BuildErr == [ok |-> FALSE, node |-> <<>>]

\* ProcessDescriptionBuilder::default()...build()
ProcessBuild(f) ==
    IF ~({"state", "pid"} \subseteq DOMAIN f) THEN BuildErr
    ELSE [ok |-> TRUE,
          node |-> [kind |-> "Process",
                    node_key |-> NodeKey("Process", f, f.pid),
                    asset_id |-> Get(f, "asset_id", ""),
                    host_ip |-> Get(f, "host_ip", <<>>),
                    state |-> f.state,
                    pid |-> f.pid,
                    image_name |-> Get(f, "image_name", ""),
                    created_timestamp |-> Get(f, "created_timestamp", 0),
                    last_seen_timestamp |-> Get(f, "last_seen_timestamp", 0)]]

\* FileDescriptionBuilder::default()...build()
FileBuild(f) ==
    IF ~({"state", "path"} \subseteq DOMAIN f) THEN BuildErr
    ELSE [ok |-> TRUE,
          node |-> [kind |-> "File",
                    node_key |-> NodeKey("File", f, f.path),
                    asset_id |-> Get(f, "asset_id", ""),
                    state |-> f.state,
                    path |-> f.path,
                    created_timestamp |-> Get(f, "created_timestamp", 0),
                    last_seen_timestamp |-> Get(f, "last_seen_timestamp", 0)]]

ConnectionBuild(kind, f) ==
    IF ~({"state", "port"} \subseteq DOMAIN f) THEN BuildErr
    ELSE [ok |-> TRUE,
          node |-> [kind |-> kind,
                    node_key |-> NodeKey(kind, f, f.port),
                    host_ip |-> Get(f, "host_ip", <<>>),
                    state |-> f.state,
                    port |-> f.port,
                    created_timestamp |-> Get(f, "created_timestamp", 0),
                    last_seen_timestamp |-> Get(f, "last_seen_timestamp", 0)]]

\* InboundConnectionBuilder::default()...build()
InboundConnectionBuild(f) == ConnectionBuild("InboundConnection", f)

\* OutboundConnectionBuilder::default()...build()
OutboundConnectionBuild(f) == ConnectionBuild("OutboundConnection", f)

\* IpAddressDescription::new(timestamp, ip_address)
IpAddressNew(timestamp, ip_address) ==
    [kind |-> "IpAddress",
     node_key |-> NodeKey("IpAddress", [host_ip |-> ip_address], 0),
     timestamp |-> timestamp,
     ip_address |-> ip_address]

\* GraphDescription::new(timestamp)
GraphNew(timestamp) == [timestamp |-> timestamp, nodes |-> <<>>, edges |-> {}]

\* GraphDescription::add_node: the node is stored under its key.
AddNode(g, n) ==
    [g EXCEPT !.nodes = [k \in (DOMAIN @) \cup {n.node_key} |->
                            IF k = n.node_key THEN n ELSE @[k]]]

\* GraphDescription::add_edge(label, from, to)
AddEdge(g, label, from, to) ==
    [g EXCEPT !.edges = @ \cup {[label |-> label, from |-> from, to |-> to]}]

(***************************************************************************)
(* What a construction rule returns: Ok(graph), Err(e), or no return at    *)
(* all when an unwrap() of a failed build() panics.                        *)
(***************************************************************************)
Ok(g) == [tag |-> "Ok", graph |-> g, err |-> ""]

Err(e) == [tag |-> "Err", graph |-> GraphNew(0), err |-> e]

Panic == [tag |-> "Panic", graph |-> GraphNew(0), err |-> "unwrap on Err"]

\* The add_edge and add_node statements of a rule, as data, in source order.
Edge(label, from, to) == [op |-> "add_edge", label |-> label, from |-> from, to |-> to]

Node(n) == [op |-> "add_node", node |-> n]

ApplyOp(g, o) ==
    IF o.op = "add_edge" THEN AddEdge(g, o.label, o.from, o.to) ELSE AddNode(g, o.node)

\* The graph after the statements from the i-th on, each applied to the
\* graph the one before left.
RECURSIVE ApplyOps(_, _, _)
ApplyOps(g, ops, i) ==
    IF i > Len(ops) THEN g
    ELSE CHOOSE end \in {ApplyOps(nx, ops, i + 1) : nx \in {ApplyOp(g, ops[i])}} : TRUE

(***************************************************************************)
(* handle_process_start (lines 96-141).  ProcessStartGraph is lines        *)
(* 127-140 on the three nodes built, ProcessStartNodes lines 98-125 on the *)
(* timestamp line 97 returned.                                             *)
(***************************************************************************)
\* Mutant: the parent node is never added.
ProcessStartGraphNoParent(timestamp, parent, child, child_exe) ==
    IF ~parent.ok \/ ~child.ok \/ ~child_exe.ok THEN Panic
    ELSE Ok(ApplyOps(GraphNew(timestamp),
                     << Edge("bin_file", child.node.node_key, child_exe.node.node_key),
                        Node(child_exe.node),
                        Edge("children", parent.node.node_key, child.node.node_key),
                        Node(child.node) >>, 1))

ProcessStartGraph(timestamp, parent, child, child_exe) ==
    IF ~parent.ok \/ ~child.ok \/ ~child_exe.ok THEN Panic
    ELSE Ok(ApplyOps(GraphNew(timestamp),
                     << Edge("bin_file", child.node.node_key, child_exe.node.node_key),
                        Node(child_exe.node),
                        Edge("children", parent.node.node_key, child.node.node_key),
                        Node(parent.node),
                        Node(child.node) >>, 1))

ProcessStartNodes(process_start, timestamp) ==
    CHOOSE res \in
        { ProcessStartGraph(timestamp, parent, child, child_exe) :
            parent \in {ProcessBuild([asset_id |-> process_start.computer,
                                      state |-> "Existing",
                                      pid |-> process_start.parent_process_id,
                                      last_seen_timestamp |-> timestamp])},
            child \in {ProcessBuild([asset_id |-> process_start.computer,
                                     image_name |-> process_start.image,
                                     state |-> "Created",
                                     pid |-> process_start.process_id,
                                     created_timestamp |-> timestamp])},
            child_exe \in {FileBuild([asset_id |-> process_start.computer,
                                      state |-> "Existing",
                                      last_seen_timestamp |-> timestamp,
                                      path |-> process_start.image])} } : TRUE

handle_process_start(process_start) ==
    CHOOSE res \in
        { IF ~r.ok THEN Err(r.err) ELSE ProcessStartNodes(process_start, r.val) :
            r \in {utc_to_epoch(process_start.utc_time)} } : TRUE

(***************************************************************************)
(* handle_file_create (lines 143-173).                                     *)
(***************************************************************************)
FileCreateGraph(timestamp, creator, file) ==
    IF ~creator.ok \/ ~file.ok THEN Panic
    ELSE Ok(ApplyOps(GraphNew(timestamp),
                     << Edge("created_files", creator.node.node_key, file.node.node_key),
                        Node(creator.node),
                        Node(file.node) >>, 1))

\* Mutant: the file is built without its created_timestamp.
FileCreateNodesNoTimestamp(file_create, timestamp) ==
    CHOOSE res \in
        { FileCreateGraph(timestamp, creator, file) :
            creator \in {ProcessBuild([asset_id |-> file_create.computer,
                                       state |-> "Existing",
                                       pid |-> file_create.process_id,
                                       last_seen_timestamp |-> timestamp])},
            file \in {FileBuild([asset_id |-> file_create.computer,
                                 state |-> "Created",
                                 path |-> file_create.target_filename])} } : TRUE

FileCreateNodes(file_create, timestamp) ==
    CHOOSE res \in
        { FileCreateGraph(timestamp, creator, file) :
            creator \in {ProcessBuild([asset_id |-> file_create.computer,
                                       state |-> "Existing",
                                       pid |-> file_create.process_id,
                                       last_seen_timestamp |-> timestamp])},
            file \in {FileBuild([asset_id |-> file_create.computer,
                                 state |-> "Created",
                                 path |-> file_create.target_filename,
                                 created_timestamp |-> timestamp])} } : TRUE

handle_file_create(file_create) ==
    CHOOSE res \in
        { IF ~r.ok THEN Err(r.err) ELSE FileCreateNodes(file_create, r.val) :
            r \in {utc_to_epoch(file_create.creation_utc_time)} } : TRUE

(***************************************************************************)
(* handle_inbound_connection (lines 175-235).  InboundInternal is the      *)
(* branch of lines 199-211 with lines 225-234, InboundExternal the branch  *)
(* of lines 213-222 with lines 225-234.                                    *)
(***************************************************************************)
InboundInternal(timestamp, process, inbound, outbound) ==
    IF ~outbound.ok THEN Panic
    ELSE Ok(ApplyOps(GraphNew(timestamp),
                     << Edge("connection", outbound.node.node_key, inbound.node.node_key),
                        Node(outbound.node),
                        Edge("bound_connection", process.node.node_key, inbound.node.node_key),
                        Node(inbound.node),
                        Node(process.node) >>, 1))

InboundExternal(timestamp, process, inbound, external_ip) ==
    Ok(ApplyOps(GraphNew(timestamp),
                << Edge("external_connection", inbound.node.node_key, external_ip.node_key),
                   Node(external_ip),
                   Edge("bound_connection", process.node.node_key, inbound.node.node_key),
                   Node(inbound.node),
                   Node(process.node) >>, 1))

\* Mutant: the destination is never classified, the external branch is taken.
InboundGraphAlwaysExternal(inbound_connection, timestamp, process, inbound) ==
    IF ~process.ok \/ ~inbound.ok THEN Panic
    ELSE CHOOSE res \in
             { InboundExternal(timestamp, process, inbound, external_ip) :
                 external_ip \in {IpAddressNew(timestamp,
                                      inbound_connection.destination_hostname)} } : TRUE

InboundGraph(inbound_connection, timestamp, process, inbound) ==
    IF ~process.ok \/ ~inbound.ok THEN Panic
    ELSE IF is_internal_ip(inbound_connection.destination_hostname)
    THEN CHOOSE res \in
             { InboundInternal(timestamp, process, inbound, outbound) :
                 outbound \in {InboundConnectionBuild(
                                   [host_ip |-> inbound_connection.destination_hostname,
                                    state |-> "Created",
                                    port |-> inbound_connection.source_port,
                                    created_timestamp |-> timestamp])} } : TRUE
    ELSE CHOOSE res \in
             { InboundExternal(timestamp, process, inbound, external_ip) :
                 external_ip \in {IpAddressNew(timestamp,
                                      inbound_connection.destination_hostname)} } : TRUE

InboundNodes(inbound_connection, timestamp) ==
    CHOOSE res \in
        { InboundGraph(inbound_connection, timestamp, process, inbound) :
            process \in {ProcessBuild([host_ip |-> inbound_connection.source_hostname,
                                       state |-> "Existing",
                                       pid |-> inbound_connection.process_id,
                                       last_seen_timestamp |-> timestamp])},
            inbound \in {InboundConnectionBuild(
                             [host_ip |-> inbound_connection.source_hostname,
                              state |-> "Created",
                              port |-> inbound_connection.source_port,
                              created_timestamp |-> timestamp])} } : TRUE

handle_inbound_connection(inbound_connection) ==
    CHOOSE res \in
        { IF ~r.ok THEN Err(r.err) ELSE InboundNodes(inbound_connection, r.val) :
            r \in {utc_to_epoch(inbound_connection.utc_time)} } : TRUE

(***************************************************************************)
(* handle_outbound_connection (lines 238-301).  OutboundInternal is the    *)
(* branch of lines 266-277 with lines 291-300, OutboundExternal the branch *)
(* of lines 279-288 with lines 291-300.                                    *)
(***************************************************************************)
OutboundInternal(timestamp, process, outbound, inbound) ==
    IF ~inbound.ok THEN Panic
    ELSE Ok(ApplyOps(GraphNew(timestamp),
                     << Edge("connection", outbound.node.node_key, inbound.node.node_key),
                        Node(inbound.node),
                        Edge("created_connection", process.node.node_key,
                             outbound.node.node_key),
                        Node(outbound.node),
                        Node(process.node) >>, 1))

\* Mutant: the IpAddress node the edge points to is never added.
OutboundExternalNoIpNode(timestamp, process, outbound, external_ip) ==
    Ok(ApplyOps(GraphNew(timestamp),
                << Edge("external_connection", outbound.node.node_key, external_ip.node_key),
                   Edge("created_connection", process.node.node_key, outbound.node.node_key),
                   Node(outbound.node),
                   Node(process.node) >>, 1))

OutboundExternal(timestamp, process, outbound, external_ip) ==
    Ok(ApplyOps(GraphNew(timestamp),
                << Edge("external_connection", outbound.node.node_key, external_ip.node_key),
                   Node(external_ip),
                   Edge("created_connection", process.node.node_key, outbound.node.node_key),
                   Node(outbound.node),
                   Node(process.node) >>, 1))

OutboundGraph(outbound_connection, timestamp, process, outbound) ==
    IF ~process.ok \/ ~outbound.ok THEN Panic
    ELSE IF is_internal_ip(outbound_connection.destination_hostname)
    THEN CHOOSE res \in
             { OutboundInternal(timestamp, process, outbound, inbound) :
                 inbound \in {InboundConnectionBuild(
                                  [host_ip |-> outbound_connection.destination_hostname,
                                   state |-> "Existing",
                                   port |-> outbound_connection.destination_port,
                                   last_seen_timestamp |-> timestamp])} } : TRUE
    ELSE CHOOSE res \in
             { OutboundExternal(timestamp, process, outbound, external_ip) :
                 external_ip \in {IpAddressNew(timestamp,
                                      outbound_connection.destination_hostname)} } : TRUE

OutboundNodes(outbound_connection, timestamp) ==
    CHOOSE res \in
        { OutboundGraph(outbound_connection, timestamp, process, outbound) :
            process \in {ProcessBuild([host_ip |-> outbound_connection.source_hostname,
                                       state |-> "Existing",
                                       pid |-> outbound_connection.process_id,
                                       last_seen_timestamp |-> timestamp])},
            outbound \in {OutboundConnectionBuild(
                              [host_ip |-> outbound_connection.source_hostname,
                               state |-> "Created",
                               port |-> outbound_connection.source_port,
                               created_timestamp |-> timestamp])} } : TRUE

handle_outbound_connection(outbound_connection) ==
    CHOOSE res \in
        { IF ~r.ok THEN Err(r.err) ELSE OutboundNodes(outbound_connection, r.val) :
            r \in {utc_to_epoch(outbound_connection.utc_time)} } : TRUE

(***************************************************************************)
(* Inputs: timestamp texts, host texts and the typed events built of them. *)
(***************************************************************************)
\* "1970-01-01 00:00:00.000": the epoch itself.
TimeEpoch == <<"1", "9", "7", "0", "-", "0", "1", "-", "0", "1", " ",
               "0", "0", ":", "0", "0", ":", "0", "0", ".", "0", "0", "0">>

\* "1970-01-02 03:04:05.678"
TimeLater == <<"1", "9", "7", "0", "-", "0", "1", "-", "0", "2", " ",
               "0", "3", ":", "0", "4", ":", "0", "5", ".", "6", "7", "8">>

\* "1969-12-31 23:59:59.999": one millisecond before the epoch.
TimeBeforeEpoch == <<"1", "9", "6", "9", "-", "1", "2", "-", "3", "1", " ",
                     "2", "3", ":", "5", "9", ":", "5", "9", ".", "9", "9", "9">>

\* "1970/01/02": not in the format.
TimeMalformed == <<"1", "9", "7", "0", "/", "0", "1", "/", "0", "2">>

\* "1970-01-02\r03:04:05.678": a carriage return where the format has a
\* space; white space of any kind matches it.
TimeOtherSpace == <<"1", "9", "7", "0", "-", "0", "1", "-", "0", "2", "\r",
                    "0", "3", ":", "0", "4", ":", "0", "5", ".", "6", "7", "8">>

\* "1970-01-02 03:04:05.6": a fraction of fewer than three digits.
TimeShortFraction == <<"1", "9", "7", "0", "-", "0", "1", "-", "0", "2", " ",
                       "0", "3", ":", "0", "4", ":", "0", "5", ".", "6">>

Times == {TimeEpoch, TimeLater, TimeBeforeEpoch, TimeMalformed,
          TimeOtherSpace, TimeShortFraction}

Host10 == <<"1", "0", ".", "0", ".", "0", ".", "5">>

Host192 == <<"1", "9", "2", ".", "1", "6", "8", ".", "1", ".", "1">>

Host172 == <<"1", "7", "2", ".", "1", "6", ".", "0", ".", "1">>

Host127 == <<"1", "2", "7", ".", "0", ".", "0", ".", "1">>

Host8 == <<"8", ".", "8", ".", "8", ".", "8">>

HostV6Loopback == <<":", ":", "1">>

HostV6Local == <<"f", "d", "0", "0", ":", ":", "1">>

HostV6LocalUpper == <<"F", "C", "0", "0", ":", ":", "1">>

Host172Low == <<"1", "7", "2", ".", "1", "5", ".", "0", ".", "1">>

Host172High == <<"1", "7", "2", ".", "3", "2", ".", "0", ".", "1">>

Host172Top == <<"1", "7", "2", ".", "3", "1", ".", "2", "5", "5", ".", "1">>

HostName == <<"d", "b", ".", "c", "o", "r", "p">>

HostSlash127 == <<"/", "1", "2", "7", ".", "0", ".", "0", ".", "1">>

HostFdSlash == <<"f", "d", "/", "8">>

\* The hosts of network events.
Hosts == {Host10, Host192, Host127, Host8}

\* The texts is_internal_ip is called with directly.
IpInputs == Hosts \cup {Host172, HostV6Loopback, HostV6Local, HostV6LocalUpper,
                        Host172Low, Host172High, Host172Top, HostName,
                        HostSlash127, HostFdSlash}

Pids == 1..MaxPid

Ports == {80, 443}

ProcessCreateEvents ==
    [kind : {"ProcessCreate"}, computer : {"hostA"}, utc_time : Times,
     process_id : Pids, parent_process_id : Pids, image : {"/bin/sh"}]

FileCreateEvents ==
    [kind : {"FileCreate"}, computer : {"hostA"}, creation_utc_time : Times,
     process_id : Pids, target_filename : {"/tmp/f", "/bin/sh"}]

NetworkEvents(kind) ==
    [kind : {kind}, utc_time : Times, process_id : Pids,
     source_hostname : Hosts, source_port : Ports,
     destination_hostname : Hosts, destination_port : Ports]

\* The match of lines 351-388, without the logging: the rule of the event's kind.
ApplyRule(event) ==
    CASE event.kind = "ProcessCreate" -> handle_process_start(event)
      [] event.kind = "FileCreate" -> handle_file_create(event)
      [] event.kind = "InboundNetwork" -> handle_inbound_connection(event)
      [] event.kind = "OutboundNetwork" -> handle_outbound_connection(event)

(***************************************************************************)
(* The payload.  A byte is a string: "\n" is the newline byte, "0xFF" a    *)
(* byte that is not valid UTF-8, and each name of EventOfText stands for   *)
(* the bytes of one encoded event.                                         *)
(***************************************************************************)
NL == "\n"

InvalidByte == "0xFF"

ReplacementChar == "U+FFFD"

\* The typed events the encoded texts of the model decode to.
EventOfText ==
    [t \in {"P", "F", "B"} |->
        CASE t = "P" -> [kind |-> "ProcessCreate", computer |-> "hostA",
                         utc_time |-> TimeLater, process_id |-> 2,
                         parent_process_id |-> 1, image |-> "/bin/sh"]
          [] t = "F" -> [kind |-> "FileCreate", computer |-> "hostA",
                         creation_utc_time |-> TimeBeforeEpoch,
                         process_id |-> 1, target_filename |-> "/tmp/f"]
          [] t = "B" -> [kind |-> "OutboundNetwork", utc_time |-> TimeEpoch,
                         process_id |-> 1, source_hostname |-> Host10,
                         source_port |-> 443, destination_hostname |-> Host8,
                         destination_port |-> 80]]

\* What one record of a payload may hold: nothing, noise, or one event.
RecordTexts == {<<>>, <<InvalidByte>>} \cup {<<t>> : t \in DOMAIN EventOfText}

\* The records joined by the newline byte.
RECURSIVE Join(_)
Join(recs) ==
    IF Len(recs) = 1 THEN recs[1] ELSE recs[1] \o <<NL>> \o Join(Tail(recs))

Payloads ==
    {Join(recs) : recs \in UNION {[1..n -> RecordTexts] : n \in 1..MaxRecords}}

(***************************************************************************)
(* slice::split (line 341): the slices between the separator bytes; a      *)
(* sequence without separator, the empty one too, is one slice.            *)
(***************************************************************************)
RECURSIVE SplitFrom(_, _, _, _)
SplitFrom(s, sep, p, cur) ==
    IF p > Len(s) THEN <<cur>>
    ELSE IF s[p] = sep THEN <<cur>> \o SplitFrom(s, sep, p + 1, <<>>)
    ELSE SplitFrom(s, sep, p + 1, Append(cur, s[p]))

Split(s, sep) == SplitFrom(s, sep, 1, <<>>)

\* String::from_utf8_lossy (line 347): invalid bytes become U+FFFD.
from_utf8_lossy(bytes) ==
    [i \in 1..Len(bytes) |->
        IF bytes[i] = InvalidByte THEN ReplacementChar ELSE bytes[i]]

\* Event::from_str (line 348), the typed-event decoder.
from_str(text) ==
    IF Len(text) = 1 /\ text[1] \in DOMAIN EventOfText
    THEN [ok |-> TRUE, event |-> EventOfText[text[1]]]
    ELSE [ok |-> FALSE, event |-> <<>>]

(***************************************************************************)
(* The closure of flat_map (lines 346-389): Some(fragment), None, or a     *)
(* panic that leaves the closure.                                          *)
(***************************************************************************)
Some(g) == [tag |-> "Some", graph |-> g]

None == [tag |-> "None", graph |-> GraphNew(0)]

Unwound == [tag |-> "Panic", graph |-> GraphNew(0)]

OptionOf(r) ==
    CASE r.tag = "Ok" -> Some(r.graph)
      [] r.tag = "Err" -> None
      [] OTHER -> Unwound

MapRecord(event) ==
    CHOOSE o \in
        { IF ~parsed.ok THEN None
          ELSE CHOOSE x \in {OptionOf(r) : r \in {ApplyRule(parsed.event)}} : TRUE
          : parsed \in {from_str(from_utf8_lossy(event))} } : TRUE

(***************************************************************************)
(* build() of ProcessDescriptionBuilder, FileDescriptionBuilder and         *)
(* InboundConnectionBuilder / OutboundConnectionBuilder is code of          *)
(* graph_descriptions: it answers Ok(node), or Err when a required field    *)
(* cannot be built.                                                         *)
(***************************************************************************)
BuildResults == {"Ok", "Err"}

(***************************************************************************)
(* The closure on one record whose builders answer built.  Every rule      *)
(* converts the timestamp first and then calls build().unwrap() (lines     *)
(* 108, 117, 125, 155, 163, 187, 196, 205, 254, 262, 272): a record that   *)
(* got past utc_to_epoch panics on Err, no other record calls a builder.   *)
(***************************************************************************)
MapRecordBuilt(event, built) ==
    CHOOSE o \in
        { IF r.tag = "Some" /\ built = "Err" THEN Unwound ELSE r :
            r \in {MapRecord(event)} } : TRUE

\* Mutant: collecting into an Option, where one None empties the batch.
RECURSIVE CollectAllOrNothing(_, _)
CollectAllOrNothing(o, n) ==
    IF \E i \in 1..n : o[i].tag = "None" THEN <<>>
    ELSE IF n = 0 THEN <<>>
    ELSE CollectAllOrNothing(o, n - 1) \o <<o[n].graph>>

\* collect() (line 389): the fragments of the Some results, in record order.
RECURSIVE Collect(_, _)
Collect(o, n) ==
    IF n = 0 THEN <<>>
    ELSE Collect(o, n - 1) \o (IF o[n].tag = "Some" THEN <<o[n].graph>> ELSE <<>>)

(***************************************************************************)
(* handle_event (lines 336-402), one invocation on one payload.            *)
(***************************************************************************)
NoCall == [fn |-> "none", arg |-> <<>>]

Init ==
    /\ pc = "start"
    /\ payload \in Payloads
    /\ events = <<>>
    /\ out = <<>>
    /\ subgraphs = <<>>
    /\ sinkCalls = <<>>
    /\ ret = "none"
    /\ call = NoCall
    /\ result = <<>>

\* Lines 339-342: the split.
SplitPayload ==
    /\ pc = "start"
    /\ events' = Split(payload, NL)
    /\ pc' = "map"
    /\ UNCHANGED <<payload, out, subgraphs, sinkCalls, ret, call, result>>

\* Mutant: the workers share one buffer, which holds the first record taken.
MapOneSharedBuffer(i) ==
    /\ pc = "map"
    /\ i \in (1..Len(events)) \ DOMAIN out
    /\ \E r \in {MapRecord(events[IF DOMAIN out = {} THEN i
                                  ELSE CHOOSE j \in DOMAIN out : TRUE])} :
           IF r.tag = "Panic"
           THEN pc' = "panicked" /\ out' = out
           ELSE /\ pc' = pc
                /\ out' = [j \in DOMAIN out \cup {i} |-> IF j = i THEN r ELSE out[j]]
    /\ UNCHANGED <<payload, events, subgraphs, sinkCalls, ret, call, result>>

\* Lines 346-389: some worker thread runs the closure on a record not yet
\* taken.  A panic of the closure unwinds handle_event.
MapOne(i) ==
    /\ pc = "map"
    /\ i \in (1..Len(events)) \ DOMAIN out
    /\ \E built \in BuildResults : \E r \in {MapRecordBuilt(events[i], built)} :
           IF r.tag = "Panic"
           THEN pc' = "panicked" /\ out' = out
           ELSE /\ pc' = pc
                /\ out' = [j \in DOMAIN out \cup {i} |-> IF j = i THEN r ELSE out[j]]
    /\ UNCHANGED <<payload, events, subgraphs, sinkCalls, ret, call, result>>

\* Line 389: every record is finished, the batch is collected.
CollectBatch ==
    /\ pc = "map"
    /\ DOMAIN out = 1..Len(events)
    /\ subgraphs' = Collect(out, Len(events))
    /\ pc' = "sink"
    /\ UNCHANGED <<payload, events, out, sinkCalls, ret, call, result>>

\* Mutant: an empty batch is not handed to the sink.
HandoffSkipsEmpty(sinkResult) ==
    /\ pc = "sink"
    /\ sinkCalls' = IF subgraphs = <<>> THEN sinkCalls
                    ELSE Append(sinkCalls, [arg |-> subgraphs, result |-> sinkResult])
    /\ ret' = IF sinkResult = "Err" /\ subgraphs # <<>> THEN "Err" ELSE "Ok"
    /\ pc' = "done"
    /\ UNCHANGED <<payload, events, out, subgraphs, call, result>>

\* Mutant: the sink's result is dropped instead of returned.
HandoffIgnoresError(sinkResult) ==
    /\ pc = "sink"
    /\ sinkCalls' = Append(sinkCalls, [arg |-> subgraphs, result |-> sinkResult])
    /\ ret' = "Ok"
    /\ pc' = "done"
    /\ UNCHANGED <<payload, events, out, subgraphs, call, result>>

\* Lines 393-401: the sink is called with the batch; its error is returned.
Handoff(sinkResult) ==
    /\ pc = "sink"
    /\ sinkCalls' = Append(sinkCalls, [arg |-> subgraphs, result |-> sinkResult])
    /\ ret' = IF sinkResult = "Err" THEN "Err" ELSE "Ok"
    /\ pc' = "done"
    /\ UNCHANGED <<payload, events, out, subgraphs, call, result>>

Next ==
    \/ SplitPayload
    \/ \E i \in 1..(MaxRecords + 1) : MapOne(i)
    \/ CollectBatch
    \/ \E sinkResult \in {"Ok", "Err"} : Handoff(sinkResult)

Spec == Init /\ [][Next]_vars

(***************************************************************************)
(* The pure functions called directly, once, on any input of the model.    *)
(***************************************************************************)
InitRules ==
    /\ pc = "idle"
    /\ payload = <<>>
    /\ events = <<>>
    /\ out = <<>>
    /\ subgraphs = <<>>
    /\ sinkCalls = <<>>
    /\ ret = "none"
    /\ call = NoCall
    /\ result = <<>>

Classify(ip) ==
    /\ call = NoCall
    /\ call' = [fn |-> "is_internal_ip", arg |-> ip]
    /\ result' = is_internal_ip(ip)
    /\ UNCHANGED <<pc, payload, events, out, subgraphs, sinkCalls, ret>>

Normalize(utc) ==
    /\ call = NoCall
    /\ call' = [fn |-> "utc_to_epoch", arg |-> utc]
    /\ result' = utc_to_epoch(utc)
    /\ UNCHANGED <<pc, payload, events, out, subgraphs, sinkCalls, ret>>

ProcessStart(event) ==
    /\ call = NoCall
    /\ call' = [fn |-> "handle_process_start", arg |-> event]
    /\ result' = handle_process_start(event)
    /\ UNCHANGED <<pc, payload, events, out, subgraphs, sinkCalls, ret>>

FileCreate(event) ==
    /\ call = NoCall
    /\ call' = [fn |-> "handle_file_create", arg |-> event]
    /\ result' = handle_file_create(event)
    /\ UNCHANGED <<pc, payload, events, out, subgraphs, sinkCalls, ret>>

InboundConnection(event) ==
    /\ call = NoCall
    /\ call' = [fn |-> "handle_inbound_connection", arg |-> event]
    /\ result' = handle_inbound_connection(event)
    /\ UNCHANGED <<pc, payload, events, out, subgraphs, sinkCalls, ret>>

OutboundConnection(event) ==
    /\ call = NoCall
    /\ call' = [fn |-> "handle_outbound_connection", arg |-> event]
    /\ result' = handle_outbound_connection(event)
    /\ UNCHANGED <<pc, payload, events, out, subgraphs, sinkCalls, ret>>

NextRules ==
    \/ \E ip \in IpInputs : Classify(ip)
    \/ \E utc \in Times : Normalize(utc)
    \/ \E event \in ProcessCreateEvents : ProcessStart(event)
    \/ \E event \in FileCreateEvents : FileCreate(event)
    \/ \E event \in NetworkEvents("InboundNetwork") : InboundConnection(event)
    \/ \E event \in NetworkEvents("OutboundNetwork") : OutboundConnection(event)

SpecRules == InitRules /\ [][NextRules]_vars

(***************************************************************************)
(* Vocabulary of the properties.                                           *)
(***************************************************************************)
\* The records of a payload: one more than its newline bytes.
RecordCount(bytes) == Cardinality({p \in 1..Len(bytes) : bytes[p] = NL}) + 1

\* What record i of the payload must come to: whether it parses, whether
\* its rule then succeeds, and the fragment of the rule.
RecordOutcome(i) ==
    CHOOSE o \in
        { IF ~parsed.ok
          THEN [parses |-> FALSE, ok |-> FALSE, graph |-> GraphNew(0)]
          ELSE CHOOSE x \in {[parses |-> TRUE, ok |-> r.tag = "Ok", graph |-> r.graph] :
                               r \in {ApplyRule(parsed.event)}} : TRUE
          : parsed \in {from_str(from_utf8_lossy(events[i]))} } : TRUE

\* A record that yields no fragment: it does not parse, or its rule fails.
RecordFails(i) == ~RecordOutcome(i).ok

FailedRecords == {i \in 1..Len(events) : RecordFails(i)}

Returned == pc = "done"

\* How many times fragment g occurs in batch b.
Occurrences(b, g) == Cardinality({j \in 1..Len(b) : b[j] = g})

NodeCount(g) == Cardinality(DOMAIN g.nodes)

EdgeCount(g) == Cardinality(g.edges)

Labels(g) == {e.label : e \in g.edges}

NodeKinds(g) == {g.nodes[k].kind : k \in DOMAIN g.nodes}

RuleCalled(fn) == call.fn = fn

AnyRuleCalled ==
    call.fn \in {"handle_process_start", "handle_file_create",
                 "handle_inbound_connection", "handle_outbound_connection"}

\* The timestamp text of the event a rule was called with.
CalledTimestamp ==
    IF call.fn = "handle_file_create" THEN call.arg.creation_utc_time
    ELSE call.arg.utc_time

\* The timestamps a node carries; 0 is the default of a timestamp never set.
CarriesOnly(n, ts) ==
    IF n.kind = "IpAddress" THEN n.timestamp = ts
    ELSE /\ n.created_timestamp = ts \/ n.last_seen_timestamp = ts
         /\ n.created_timestamp \in {0, ts}
         /\ n.last_seen_timestamp \in {0, ts}

(***************************************************************************)
(* C1.  When handle_event returns, the batch the sink received holds       *)
(* exactly N - M fragments, N the records of the payload (its newline      *)
(* bytes plus one) and M those that fail to parse or fail in their rule;   *)
(* if every record fails the batch is empty, and handle_event returns Ok   *)
(* when the sink does.                                                     *)
(***************************************************************************)
C1BatchSize ==
    Returned =>
        /\ Len(events) = RecordCount(payload)
        /\ Len(sinkCalls) = 1
        /\ \E M \in {Cardinality(FailedRecords)} :
              /\ Len(sinkCalls[1].arg) = RecordCount(payload) - M
              /\ M = RecordCount(payload) => sinkCalls[1].arg = <<>>
        /\ sinkCalls[1].result = "Ok" => ret = "Ok"

\* Three records, one of them failing, two fragments delivered.
C1Witness ==
    /\ Returned
    /\ RecordCount(payload) = 3
    /\ Cardinality(FailedRecords) = 1
    /\ Len(sinkCalls[1].arg) = 2
    /\ ret = "Ok"

(***************************************************************************)
(* C2.  The sink is called at most once, never before every record is      *)
(* finished, and once handle_event has returned exactly once, the empty    *)
(* batch included; its argument is the whole batch: one fragment per       *)
(* record that gave one.                                                   *)
(***************************************************************************)
C2SinkOnce ==
    /\ Len(sinkCalls) <= 1
    /\ Returned => Len(sinkCalls) = 1
    /\ sinkCalls # <<>> =>
          /\ pc = "done"
          /\ DOMAIN out = 1..RecordCount(payload)
          /\ \A i \in DOMAIN out :
                out[i].tag = "Some" => Occurrences(sinkCalls[1].arg, out[i].graph) >= 1
          /\ Len(sinkCalls[1].arg) =
                Cardinality({i \in DOMAIN out : out[i].tag = "Some"})

\* The sink was called once with the empty batch of a payload of two records.
C2Witness ==
    /\ Returned
    /\ RecordCount(payload) = 2
    /\ Len(sinkCalls) = 1
    /\ sinkCalls[1].arg = <<>>

(***************************************************************************)
(* C3.  A record whose rule cannot produce a fragment, because its         *)
(* timestamp does not convert or because a node builder fails, is dropped  *)
(* and nothing else: handle_event never unwinds, a finished record has a   *)
(* fragment exactly if it parses and its rule succeeds, that fragment is   *)
(* the rule's, and the batch delivered holds the fragments of the          *)
(* successful records and no other.                                        *)
(***************************************************************************)
C3FailureIsolation ==
    /\ pc # "panicked"
    /\ \A i \in DOMAIN out :
          \E o \in {RecordOutcome(i)} :
              IF ~o.ok
              THEN out[i].tag = "None"
              ELSE out[i].tag = "Some" /\ out[i].graph = o.graph
    /\ Returned =>
          /\ DOMAIN out = 1..Len(events)
          /\ \A i \in DOMAIN out :
                out[i].tag = "Some" => Occurrences(sinkCalls[1].arg, out[i].graph) >= 1
          /\ \A j \in 1..Len(sinkCalls[1].arg) :
                \E i \in DOMAIN out :
                    out[i].tag = "Some" /\ sinkCalls[1].arg[j] = out[i].graph

(***************************************************************************)
C10OrderIndependent ==
    /\ \A i \in DOMAIN out :
          \E o \in {RecordOutcome(i)} :
              /\ out[i].tag = (IF o.ok THEN "Some" ELSE "None")
              /\ o.ok => out[i].graph = o.graph
    /\ Returned =>
          \A i \in DOMAIN out :
              out[i].tag = "Some" =>
                  Occurrences(sinkCalls[1].arg, out[i].graph) =
                      Cardinality({k \in DOMAIN out :
                                      out[k].tag = "Some" /\ out[k].graph = out[i].graph})

\* The last record was finished before the first, and both were delivered.
C10Witness ==
    /\ pc = "map"
    /\ Len(events) = 3
    /\ DOMAIN out = {2, 3}
    /\ out[2].tag = "Some"
    /\ out[3].tag = "Some"
    /\ out[2].graph # out[3].graph

(***************************************************************************)
(* The classification the ranges describe: a dotted quad in 127.0.0.0/8,   *)
(* 10.0.0.0/8, 172.16.0.0/12 or 192.168.0.0/16, the text ::1, or a text    *)
(* that begins with fc or fd.                                              *)
(***************************************************************************)
IsOctet(part) ==
    /\ Len(part) \in 1..3
    /\ \A i \in 1..Len(part) : IsDigit(part[i])
    /\ DigitsValue(part, 1, Len(part) + 1) <= 255

Octet(part) == DigitsValue(part, 1, Len(part) + 1)

InPrivateRange(parts) ==
    /\ Len(parts) = 4
    /\ \A i \in 1..4 : IsOctet(parts[i])
    /\ \/ Octet(parts[1]) \in {10, 127}
       \/ Octet(parts[1]) = 172 /\ Octet(parts[2]) \in 16..31
       \/ Octet(parts[1]) = 192 /\ Octet(parts[2]) = 168

RangesInternal(ip) ==
    \/ InPrivateRange(Split(ip, "."))
    \/ ip = <<":", ":", "1">>
    \/ Len(ip) >= 2 /\ ip[1] \in {"f", "F"} /\ ip[2] \in {"c", "C", "d", "D"}

(***************************************************************************)
(* C5.  is_internal_ip returns true exactly for the texts in the ranges    *)
(* 127.0.0.0/8, 10.0.0.0/8, 172.16.0.0/12, 192.168.0.0/16, for ::1 and for *)
(* texts with the prefix fc or fd; "127.0.0.1" is internal and "8.8.8.8"   *)
(* is not.                                                                 *)
(***************************************************************************)
C5ClassifierRanges ==
    RuleCalled("is_internal_ip") => (result <=> RangesInternal(call.arg))

(***************************************************************************)
(* Vocabulary of the properties of the construction rules.                 *)
(***************************************************************************)
TimestampValid == utc_to_epoch(CalledTimestamp).ok

\* The keys of the nodes of g that satisfy P.
KeysWhere(g, P(_)) == {k \in DOMAIN g.nodes : P(g.nodes[k])}

ProcessStartEdges(g, ev) ==
    \E c \in KeysWhere(g, LAMBDA n : n.kind = "Process" /\ n.state = "Created"
                                      /\ n.pid = ev.process_id
                                      /\ n.image_name = ev.image) :
    \E x \in KeysWhere(g, LAMBDA n : n.kind = "File" /\ n.state = "Existing"
                                      /\ n.path = ev.image) :
    \E p \in KeysWhere(g, LAMBDA n : n.kind = "Process"
                                      /\ n.pid = ev.parent_process_id) :
        g.edges = {[label |-> "bin_file", from |-> c, to |-> x],
                   [label |-> "children", from |-> p, to |-> c]}

FileCreateShape(g, ev) ==
    /\ NodeCount(g) = 2
    /\ \E c \in KeysWhere(g, LAMBDA n : n.kind = "Process" /\ n.state = "Existing"
                                         /\ n.pid = ev.process_id) :
       \E f \in KeysWhere(g, LAMBDA n : n.kind = "File" /\ n.state = "Created"
                                         /\ n.path = ev.target_filename) :
           g.edges = {[label |-> "created_files", from |-> c, to |-> f]}

(***************************************************************************)
(* C6 as stated.  A ProcessCreate event with a valid timestamp gives a     *)
(* fragment of exactly 3 nodes and the 2 edges bin_file (child to          *)
(* executable) and children (parent to child), also when                   *)
(* parent_process_id equals process_id; a FileCreate event with a valid    *)
(* timestamp gives exactly 2 nodes and the edge created_files (creator to  *)
(* file).                                                                  *)
(***************************************************************************)
C6AsStated ==
    /\ RuleCalled("handle_process_start") /\ TimestampValid =>
          /\ result.tag = "Ok"
          /\ NodeCount(result.graph) = 3
          /\ EdgeCount(result.graph) = 2
          /\ ProcessStartEdges(result.graph, call.arg)
    /\ RuleCalled("handle_file_create") /\ TimestampValid =>
          /\ result.tag = "Ok"
          /\ FileCreateShape(result.graph, call.arg)

(***************************************************************************)
(* C6 as amended.  A ProcessCreate event with a valid timestamp gives the  *)
(* 2 edges bin_file (child to executable) and children (parent to child),  *)
(* and 3 nodes when parent_process_id differs from process_id; when they   *)
(* are equal the parent and the child have one identity key and the        *)
(* fragment has 2 nodes, the Created child and the file.  A FileCreate     *)
(* event with a valid timestamp gives exactly 2 nodes and the edge         *)
(* created_files (creator to file).                                        *)
(***************************************************************************)
C6ProcessAndFileShape ==
    /\ RuleCalled("handle_process_start") /\ TimestampValid =>
          /\ result.tag = "Ok"
          /\ EdgeCount(result.graph) = 2
          /\ ProcessStartEdges(result.graph, call.arg)
          /\ IF call.arg.parent_process_id # call.arg.process_id
             THEN /\ NodeCount(result.graph) = 3
                  /\ KeysWhere(result.graph,
                               LAMBDA n : n.kind = "Process" /\ n.state = "Existing"
                                           /\ n.pid = call.arg.parent_process_id) # {}
             ELSE /\ NodeCount(result.graph) = 2
                  /\ NodeKinds(result.graph) = {"Process", "File"}
    /\ RuleCalled("handle_file_create") /\ TimestampValid =>
          /\ result.tag = "Ok"
          /\ FileCreateShape(result.graph, call.arg)

\* A process that is its own parent: two nodes, and children is a loop.
C6Witness ==
    /\ RuleCalled("handle_process_start")
    /\ call.arg.parent_process_id = call.arg.process_id
    /\ result.tag = "Ok"
    /\ NodeCount(result.graph) = 2
    /\ \E e \in result.graph.edges : e.label = "children" /\ e.from = e.to

(***************************************************************************)
(* Network events.                                                         *)
(***************************************************************************)
NetworkRuleCalled ==
    call.fn \in {"handle_inbound_connection", "handle_outbound_connection"}

BranchEdges(g) == {e \in g.edges : e.label \in {"connection", "external_connection"}}

\* What both branches have whatever the number of nodes.
NetworkBranch(g, ev) ==
    /\ Cardinality(BranchEdges(g)) = 1
    /\ IF is_internal_ip(ev.destination_hostname)
       THEN /\ EdgeCount(g) = 2
            /\ "connection" \in Labels(g)
            /\ "external_connection" \notin Labels(g)
            /\ "IpAddress" \notin NodeKinds(g)
       ELSE /\ "external_connection" \in Labels(g)
            /\ "connection" \notin Labels(g)
            /\ KeysWhere(g, LAMBDA n : n.kind = "IpAddress"
                                        /\ n.ip_address = ev.destination_hostname) # {}

(***************************************************************************)
(* C7 as stated.  A network event with a valid timestamp gives exactly one *)
(* of the two branch edges: with an internal destination 3 nodes, 2 edges, *)
(* one of them connection, and no IpAddress node; with an external one an  *)
(* IpAddress node of the destination, an edge external_connection and no   *)
(* connection edge; for every hosts and ports, the destination host equal  *)
(* to the source host included.                                            *)
(***************************************************************************)
C7AsStated ==
    NetworkRuleCalled /\ TimestampValid =>
        /\ result.tag = "Ok"
        /\ NetworkBranch(result.graph, call.arg)
        /\ is_internal_ip(call.arg.destination_hostname) => NodeCount(result.graph) = 3

(***************************************************************************)
(* C7 as amended.  As stated, but with an internal destination the         *)
(* fragment has 3 nodes unless the event is an InboundNetwork event whose  *)
(* destination host equals its source host: then the remote and the local  *)
(* InboundConnection have one identity key and the fragment has 2 nodes.   *)
(***************************************************************************)
C7ExactlyOneBranch ==
    NetworkRuleCalled /\ TimestampValid =>
        /\ result.tag = "Ok"
        /\ NetworkBranch(result.graph, call.arg)
        /\ is_internal_ip(call.arg.destination_hostname) =>
              NodeCount(result.graph) =
                  (IF /\ RuleCalled("handle_inbound_connection")
                      /\ call.arg.destination_hostname = call.arg.source_hostname
                   THEN 2 ELSE 3)

\* An inbound connection of an internal host to itself.
C7Witness ==
    /\ RuleCalled("handle_inbound_connection")
    /\ call.arg.destination_hostname = call.arg.source_hostname
    /\ is_internal_ip(call.arg.destination_hostname)
    /\ result.tag = "Ok"
    /\ NodeCount(result.graph) = 2
    /\ "connection" \in Labels(result.graph)

(***************************************************************************)
(* C8.  In every fragment a rule returns, both ends of every edge are keys *)
(* of nodes of that fragment.                                              *)
(***************************************************************************)
C8EdgesReferenceNodes ==
    AnyRuleCalled /\ result.tag = "Ok" =>
        \A e \in result.graph.edges :
            e.from \in DOMAIN result.graph.nodes /\ e.to \in DOMAIN result.graph.nodes

\* An outbound connection to an external host: the edge to the IpAddress
\* node is added before the node.
C8Witness ==
    /\ RuleCalled("handle_outbound_connection")
    /\ result.tag = "Ok"
    /\ \E e \in result.graph.edges :
          /\ e.label = "external_connection"
          /\ e.to \in DOMAIN result.graph.nodes
          /\ result.graph.nodes[e.to].kind = "IpAddress"

(***************************************************************************)
(* C9.  A rule fails, with utc_to_epoch's error and no fragment, exactly   *)
(* if utc_to_epoch fails on the event's timestamp; otherwise the fragment's*)
(* timestamp is the value ts it returned and every node carries ts and no  *)
(* other timestamp.  utc_to_epoch fails on a text not in the format and on *)
(* an instant before the epoch, and gives the milliseconds otherwise.      *)
(***************************************************************************)
C9TimestampFirst ==
    /\ AnyRuleCalled =>
          \E r \in {utc_to_epoch(CalledTimestamp)} :
              IF ~r.ok
              THEN result.tag = "Err" /\ result.err = r.err
              ELSE /\ result.tag = "Ok"
                   /\ result.graph.timestamp = r.val
                   /\ \A k \in DOMAIN result.graph.nodes :
                         CarriesOnly(result.graph.nodes[k], r.val)
    /\ RuleCalled("utc_to_epoch") =>
          /\ call.arg = TimeMalformed => ~result.ok /\ result.err = "ParseError"
          /\ call.arg = TimeBeforeEpoch => ~result.ok /\ result.err = "Timestamp is negative"
          /\ call.arg = TimeEpoch => result.ok /\ result.val = 0
          /\ call.arg = TimeLater => result.ok /\ result.val = 97445678
          /\ call.arg = TimeOtherSpace => result.ok /\ result.val = 97445678
          /\ call.arg = TimeShortFraction => ~result.ok /\ result.err = "ParseError"

\* A file created at 1970-01-02 03:04:05.678: every node carries 97445678.
C9Witness ==
    /\ RuleCalled("handle_file_create")
    /\ call.arg.creation_utc_time = TimeLater
    /\ result.tag = "Ok"
    /\ result.graph.timestamp = 97445678
    /\ \A k \in DOMAIN result.graph.nodes :
          CarriesOnly(result.graph.nodes[k], 97445678)

====
